---- MODULE Spec2Model ----
(***************************************************************************)
(* State-machine model of scripts/process/regression_model.py: the input   *)
(* resolver, the raw matrix loader/merger, the annotation aligner, the     *)
(* condition partitioner and the per-condition training loop.              *)
(*                                                                         *)
(* Identifiers (sample names, barcodes, cell names) are sequences of       *)
(* one-character strings, so that prefixing and suffix stripping are       *)
(* computed character by character as the Python code computes them.       *)
(* The count row of a raw cell (a row of X) is represented by its origin   *)
(* <<sample directory, row number in that sample's file>>.                 *)
(***************************************************************************)
EXTENDS Integers, Sequences, FiniteSets, TLC

VARIABLES
    args_output,      \* value of the --output flag (line 37-38)
    recompute,        \* module-level configuration flag (line 32)
    annotated_file,   \* rows of the annotated .h5ad on disk
    raw_input_dir,    \* directory entry name -> barcodes of its 10x matrix file
    meta_file,        \* rows of the snRNA-seq sheet of Metadata_all.xlsx
    stored_in,        \* where the library's export_posterior puts the means
    prev_output,      \* per-condition output directories as found at start
    pc,               \* next statement to execute
    error,            \* exception that ended the run, "none" while running
    touched,          \* filesystem accesses made so far by the run
    samples,          \* line 47/62
    adata_annotated,  \* line 45/60, obs_names rewritten at line 78
    adata_raw,        \* line 54/69, replaced at lines 105-106
    output_dir,       \* TRUE when the output directory exists
    sample_meta,      \* line 89
    cond_dict,        \* line 91-98
    raw_h5ad,         \* names of combined raw dataset files written (110/112)
    ci,               \* position of the loop of line 115 in cond_dict
    adata,            \* the loop's per-condition dataset
    mod,              \* the loop's RegressionModel
    cond_fs,          \* condition -> state of its output directory tmp_out
    inf_aver_csv,     \* condition -> table written to inf_aver.csv by this run
    calls,            \* library calls made by the loop, in order
    outcome           \* condition -> "none" | "started" | "skipped" | "written"

vars == <<args_output, recompute, annotated_file, raw_input_dir, meta_file,
          stored_in, prev_output, pc, error, touched, samples, adata_annotated,
          adata_raw, output_dir, sample_meta, cond_dict, raw_h5ad, ci, adata,
          mod, cond_fs, inf_aver_csv, calls, outcome>>

inputs == <<args_output, recompute, annotated_file, raw_input_dir, meta_file,
            stored_in, prev_output>>

-----------------------------------------------------------------------------
(* Program constants *)

min_cells_per_type == 20

label_name == "cell_types"

sample_id == "sample_id"

Profiles == {"cellbender", "cellranger"}

CondNames == <<"All", "MS", "Control", "CA", "CI", "A">>

CondSet == {CondNames[i] : i \in 1..Len(CondNames)}

Artifacts == {"training_plot.png", "c2l_mod", "sc.h5ad", "inf_aver.csv"}

Digits == {"0", "1", "2", "3", "4", "5", "6", "7", "8", "9"}

MeansKey == "means_per_cluster_mu_fg"

-----------------------------------------------------------------------------
(* Pure helpers *)

Range(s) == {s[i] : i \in 1..Len(s)}

IsUnique(s) == \A i, j \in 1..Len(s) : s[i] = s[j] => i = j

Orderings(S) ==
    {s \in [1..Cardinality(S) -> S] : \A i, j \in 1..Cardinality(S) : s[i] = s[j] => i = j}

RECURSIVE Flatten(_)
Flatten(ss) == IF ss = <<>> THEN <<>> ELSE Head(ss) \o Flatten(Tail(ss))

\* str.startswith(".") of line 47/62
IsHidden(name) == Len(name) > 0 /\ name[1] = "."

\* f"{sample}_{cell}" of lines 52, 67 and 78
Prefix(sample, cell) == sample \o <<"_">> \o cell

\* number of characters of the longest all-digit suffix of cell
TrailingDigits(cell) ==
    LET n == Len(cell)
        Ks == {k \in 0..n : \A i \in (n - k + 1)..n : cell[i] \in Digits}
    IN  CHOOSE k \in Ks : \A m \in Ks : m <= k

\* re.sub('-[0-9]+$', '', cell) of line 78
StripSuffix(cell) ==
    LET n == Len(cell)
        k == TrailingDigits(cell)
    IN  IF k > 0 /\ n > k /\ cell[n - k] = "-"
        THEN SubSeq(cell, 1, n - k - 1)
        ELSE cell

\* a mapping without keys (an empty .uns or .varm)
EmptyMap == [k \in {} |-> <<>>]

Names(rows) == [i \in 1..Len(rows) |-> rows[i].name]

SampleIds(rows) == {rows[i].obs.sample_id : i \in 1..Len(rows)}

-----------------------------------------------------------------------------
(* Paths chosen by the input resolver, lines 43-71 and 109-112 *)

AnnotatedPath(profile) ==
    IF profile = "cellbender" THEN "data/prc/sc/annotated_cellbender_mod.h5ad"
    ELSE "data/prc/sc/annotated_cellranger.h5ad"

RawInputDir(profile) ==
    IF profile = "cellbender" THEN "data/prc/sc/cellbender" ELSE "data/raw/sc"

MatrixFile(profile) ==
    IF profile = "cellbender" THEN "cell_bender_matrix_filtered.h5"
    ELSE "filtered_feature_bc_matrix.h5"

OutputDir(profile) ==
    IF profile = "cellbender" THEN "data/prc/sc/c2l_model/cellbender"
    ELSE "data/prc/sc/c2l_model/cellranger"

RawH5ad(profile) ==
    IF profile = "cellbender" THEN "data/prc/sc/adata_raw_cellbender.h5ad"
    ELSE "data/prc/sc/adata_raw_cellranger.h5ad"

MetadataPath == "data/Metadata_all.xlsx"

\* one filesystem access: the operation, the path and, for a per-sample file,
\* the sample directory it lies in
Access(op, path, sample) == [op |-> op, path |-> path, sample |-> sample]

-----------------------------------------------------------------------------
(* Input resolver, loader/merger: lines 43-75 *)

\* lines 73-74: the else branch of the selector test
RaiseValueError ==
    /\ pc = "resolve"
    /\ args_output \notin Profiles
    /\ pc' = "failed"
    /\ error' = "ValueError"
    /\ UNCHANGED <<inputs, touched, samples, adata_annotated, adata_raw, output_dir,
                   sample_meta, cond_dict, raw_h5ad, ci, adata, mod, cond_fs,
                   inf_aver_csv, calls, outcome>>

\* ReadAnnotated with the dataset read before the selector is looked at
ReadAnnotated_BeforeSelectorTest ==
    /\ pc = "resolve"
    /\ adata_annotated' = annotated_file
    /\ touched' = touched \cup {Access("read", AnnotatedPath(args_output), <<>>)}
    /\ pc' = IF args_output \in Profiles THEN "load_raw" ELSE "resolve_late"
    /\ UNCHANGED <<inputs, error, samples, adata_raw, output_dir, sample_meta,
                   cond_dict, raw_h5ad, ci, adata, mod, cond_fs, inf_aver_csv,
                   calls, outcome>>

\* line 45 / line 60
ReadAnnotated ==
    /\ pc = "resolve"
    /\ args_output \in Profiles
    /\ adata_annotated' = annotated_file
    /\ touched' = touched \cup {Access("read", AnnotatedPath(args_output), <<>>)}
    /\ pc' = "load_raw"
    /\ UNCHANGED <<inputs, error, samples, adata_raw, output_dir, sample_meta,
                   cond_dict, raw_h5ad, ci, adata, mod, cond_fs, inf_aver_csv,
                   calls, outcome>>

\* lines 50-53 / 65-68: one sample's matrix with its obs_names prefixed
LoadSample(sample) ==
    [k \in 1..Len(raw_input_dir[sample]) |->
        [name |-> Prefix(sample, raw_input_dir[sample][k]),
         X    |-> <<sample, k>>,
         obs  |-> [sample_id |-> sample]]]

\* line 54 / 69: sc.concat over the samples in listing order, label=sample_id
ConcatSamples(order) == Flatten([i \in 1..Len(order) |-> LoadSample(order[i])])

\* lines 46-55 / 61-70; os.listdir returns the entries in arbitrary order
LoadRaw ==
    /\ pc = "load_raw"
    /\ \E listing \in Orderings(DOMAIN raw_input_dir) :
          LET visible == SelectSeq(listing, LAMBDA e : ~IsHidden(e))
          IN  /\ samples' = visible
              /\ adata_raw' = [rows |-> ConcatSamples(visible), uns |-> EmptyMap]
              /\ touched' = touched
                     \cup {Access("listdir", RawInputDir(args_output), <<>>)}
                     \cup {Access("read", MatrixFile(args_output), visible[i]) :
                              i \in 1..Len(visible)}
    /\ pc' = "mkdir_output"
    /\ UNCHANGED <<inputs, error, adata_annotated, output_dir, sample_meta,
                   cond_dict, raw_h5ad, ci, adata, mod, cond_fs, inf_aver_csv,
                   calls, outcome>>

\* line 75
MkdirOutput ==
    /\ pc = "mkdir_output"
    /\ output_dir' = TRUE
    /\ touched' = touched \cup {Access("mkdir", OutputDir(args_output), <<>>)}
    /\ pc' = "rewrite"
    /\ UNCHANGED <<inputs, error, samples, adata_annotated, adata_raw, sample_meta,
                   cond_dict, raw_h5ad, ci, adata, mod, cond_fs, inf_aver_csv,
                   calls, outcome>>

-----------------------------------------------------------------------------
(* Annotation aligner and condition partitioner: lines 77-112 *)

\* line 78: the new obs_names of the annotated dataset
RewrittenNames(rows) ==
    [i \in 1..Len(rows) |->
        [rows[i] EXCEPT !.name = Prefix(rows[i].obs.sample_id, StripSuffix(rows[i].name))]]

RewriteObsNames ==
    /\ pc = "rewrite"
    /\ adata_annotated' = RewrittenNames(adata_annotated)
    /\ pc' = "assert_subset"
    /\ UNCHANGED <<inputs, error, touched, samples, adata_raw, output_dir,
                   sample_meta, cond_dict, raw_h5ad, ci, adata, mod, cond_fs,
                   inf_aver_csv, calls, outcome>>

\* AssertSubset with the test the wrong way round
AssertSubset_Reversed ==
    /\ pc = "assert_subset"
    /\ IF Range(Names(adata_raw.rows)) \subseteq Range(Names(adata_annotated))
       THEN pc' = "read_meta" /\ error' = error
       ELSE pc' = "failed" /\ error' = "AssertionError: not a subset"
    /\ UNCHANGED <<inputs, touched, samples, adata_annotated, adata_raw, output_dir,
                   sample_meta, cond_dict, raw_h5ad, ci, adata, mod, cond_fs,
                   inf_aver_csv, calls, outcome>>

\* line 87
AssertSubset ==
    /\ pc = "assert_subset"
    /\ IF Range(Names(adata_annotated)) \subseteq Range(Names(adata_raw.rows))
       THEN pc' = "read_meta" /\ error' = error
       ELSE pc' = "failed" /\ error' = "AssertionError: not a subset"
    /\ UNCHANGED <<inputs, touched, samples, adata_annotated, adata_raw, output_dir,
                   sample_meta, cond_dict, raw_h5ad, ci, adata, mod, cond_fs,
                   inf_aver_csv, calls, outcome>>

\* sample_meta.sample_id[mask] of lines 92-97
MetaSelect(meta, column, value) ==
    LET kept == SelectSeq(meta, LAMBDA r : r[column] = value)
    IN  [i \in 1..Len(kept) |-> kept[i].sample_id]

\* sample_meta.sample_id of line 92
MetaSampleColumn(meta) == [i \in 1..Len(meta) |-> meta[i].sample_id]

\* CondDict iterated in sorted key order
CondDict_Sorted(meta) ==
    << [name |-> "A",       samples |-> MetaSelect(meta, "lesion_type", "A")],
       [name |-> "All",     samples |-> MetaSampleColumn(meta)],
       [name |-> "CA",      samples |-> MetaSelect(meta, "lesion_type", "CA")],
       [name |-> "CI",      samples |-> MetaSelect(meta, "lesion_type", "CI")],
       [name |-> "Control", samples |-> MetaSelect(meta, "Condition", "Control")],
       [name |-> "MS",      samples |-> MetaSelect(meta, "Condition", "MS")] >>

\* lines 91-98, in insertion order
CondDict(meta) ==
    << [name |-> "All",     samples |-> MetaSampleColumn(meta)],
       [name |-> "MS",      samples |-> MetaSelect(meta, "Condition", "MS")],
       [name |-> "Control", samples |-> MetaSelect(meta, "Condition", "Control")],
       [name |-> "CA",      samples |-> MetaSelect(meta, "lesion_type", "CA")],
       [name |-> "CI",      samples |-> MetaSelect(meta, "lesion_type", "CI")],
       [name |-> "A",       samples |-> MetaSelect(meta, "lesion_type", "A")] >>

\* lines 89-99
ReadMeta ==
    /\ pc = "read_meta"
    /\ sample_meta' = meta_file
    /\ cond_dict' = CondDict(meta_file)
    /\ touched' = touched \cup {Access("read", MetadataPath, <<>>)}
    /\ pc' = "assert_samples"
    /\ UNCHANGED <<inputs, error, samples, adata_annotated, adata_raw, output_dir,
                   raw_h5ad, ci, adata, mod, cond_fs, inf_aver_csv, calls, outcome>>

MetaSampleIds(meta) == {meta[i].sample_id : i \in 1..Len(meta)}

\* AssertSamples testing containment in place of equality
AssertSamples_SubsetOnly ==
    /\ pc = "assert_samples"
    /\ IF ~(MetaSampleIds(sample_meta) \subseteq SampleIds(adata_raw.rows))
       THEN pc' = "failed" /\ error' = "AssertionError: missing from the raw adata"
       ELSE IF ~(MetaSampleIds(sample_meta) \subseteq SampleIds(adata_annotated))
       THEN pc' = "failed" /\ error' = "AssertionError: missing from the annotated adata"
       ELSE pc' = "transfer" /\ error' = error
    /\ UNCHANGED <<inputs, touched, samples, adata_annotated, adata_raw, output_dir,
                   sample_meta, cond_dict, raw_h5ad, ci, adata, mod, cond_fs,
                   inf_aver_csv, calls, outcome>>

\* lines 101-102
AssertSamples ==
    /\ pc = "assert_samples"
    /\ IF MetaSampleIds(sample_meta) /= SampleIds(adata_raw.rows)
       THEN pc' = "failed" /\ error' = "AssertionError: missing from the raw adata"
       ELSE IF MetaSampleIds(sample_meta) /= SampleIds(adata_annotated)
       THEN pc' = "failed" /\ error' = "AssertionError: missing from the annotated adata"
       ELSE pc' = "transfer" /\ error' = error
    /\ UNCHANGED <<inputs, touched, samples, adata_annotated, adata_raw, output_dir,
                   sample_meta, cond_dict, raw_h5ad, ci, adata, mod, cond_fs,
                   inf_aver_csv, calls, outcome>>

\* position of name in the index (pandas Index.get_indexer on a unique index)
GetIndexer(index, name) == CHOOSE j \in 1..Len(index) : index[j] = name

\* TransferRows selecting with a membership mask, which keeps the raw order
TransferRows_RawOrder(raw, annotated) ==
    LET kept == SelectSeq(raw, LAMBDA r : r.name \in Range(Names(annotated)))
    IN  [i \in 1..Len(annotated) |->
            LET j == IF i <= Len(kept) THEN i ELSE Len(kept)
            IN  [name |-> kept[j].name, X |-> kept[j].X, obs |-> annotated[i].obs]]

\* lines 105-106: rows of raw selected by the annotated obs_names, in that order,
\* with obs replaced by the annotated obs
TransferRows(raw, annotated) ==
    [i \in 1..Len(annotated) |->
        LET j == GetIndexer(Names(raw), annotated[i].name)
        IN  [name |-> raw[j].name, X |-> raw[j].X, obs |-> annotated[i].obs]]

\* lines 105-106; label-based selection needs a unique obs_names index
Transfer ==
    /\ pc = "transfer"
    /\ IF IsUnique(Names(adata_raw.rows))
       THEN /\ adata_raw' = [adata_raw EXCEPT
                                !.rows = TransferRows(adata_raw.rows, adata_annotated)]
            /\ pc' = "write_raw"
            /\ error' = error
       ELSE /\ pc' = "failed"
            /\ error' = "InvalidIndexError"
            /\ adata_raw' = adata_raw
    /\ UNCHANGED <<inputs, touched, samples, adata_annotated, output_dir,
                   sample_meta, cond_dict, raw_h5ad, ci, adata, mod, cond_fs,
                   inf_aver_csv, calls, outcome>>

\* lines 109-112, then the loop of line 115 starts with the first condition
WriteRaw ==
    /\ pc = "write_raw"
    /\ raw_h5ad' = raw_h5ad \cup {RawH5ad(args_output)}
    /\ touched' = touched \cup {Access("write", RawH5ad(args_output), <<>>)}
    /\ ci' = 1
    /\ pc' = "subset"
    /\ UNCHANGED <<inputs, error, samples, adata_annotated, adata_raw, output_dir,
                   sample_meta, cond_dict, adata, mod, cond_fs, inf_aver_csv,
                   calls, outcome>>

-----------------------------------------------------------------------------
(* Per-condition trainer: lines 115-186 *)

condition == cond_dict[ci].name

\* all category values of the label column, in sorted order
Labels == <<"B", "T">>

\* line 118: rows whose sample id is in the condition's sample list
SubsetRows(rows, cond_samples) ==
    SelectSeq(rows, LAMBDA r : r.obs.sample_id \in Range(cond_samples))

\* cell_counts taken over the whole combined matrix
cell_counts_WholeMatrix(rows) ==
    [l \in Range(Labels) |->
        Cardinality({i \in 1..Len(adata_raw.rows) : adata_raw.rows[i].obs.cell_types = l})]

\* line 123: value_counts of the label column
cell_counts(rows) ==
    [l \in Range(Labels) |-> Cardinality({i \in 1..Len(rows) : rows[i].obs.cell_types = l})]

\* line 125
labels_to_remove(rows) ==
    {l \in Range(Labels) : cell_counts(rows)[l] < min_cells_per_type}

\* line 127
FilterRare(rows) ==
    LET remove == labels_to_remove(rows)
    IN  SelectSeq(rows, LAMBDA r : r.obs.cell_types \notin remove)

\* the end of one iteration of the loop of line 115
Advance ==
    IF ci = Len(cond_dict)
    THEN pc' = "done" /\ ci' = ci
    ELSE pc' = "subset" /\ ci' = ci + 1

\* lines 117-128
SubsetAndFilter ==
    /\ pc = "subset"
    /\ adata' = [rows |-> FilterRare(SubsetRows(adata_raw.rows, cond_dict[ci].samples)),
                 uns  |-> adata_raw.uns,
                 varm |-> EmptyMap,
                 var  |-> {}]
    /\ outcome' = [outcome EXCEPT ![condition] = "started"]
    /\ pc' = "mkdir_tmp_out"
    /\ UNCHANGED <<inputs, error, touched, samples, adata_annotated, adata_raw,
                   output_dir, sample_meta, cond_dict, raw_h5ad, ci, mod, cond_fs,
                   inf_aver_csv, calls>>

\* lines 130-131
MkdirTmpOut ==
    /\ pc = "mkdir_tmp_out"
    /\ cond_fs' = [cond_fs EXCEPT ![condition].dir = TRUE]
    /\ output_dir' = TRUE
    /\ pc' = "skip_check"
    /\ UNCHANGED <<inputs, error, touched, samples, adata_annotated, adata_raw,
                   sample_meta, cond_dict, raw_h5ad, ci, adata, mod, inf_aver_csv,
                   calls, outcome>>

\* SkipTest without the recompute flag
SkipTest_IgnoresRecompute == cond_fs[condition].files["inf_aver.csv"] /= "absent"

\* line 134: the test that decides whether the condition is skipped
SkipTest == (~recompute) /\ cond_fs[condition].files["inf_aver.csv"] /= "absent"

\* lines 134-137
SkipCheck ==
    /\ pc = "skip_check"
    /\ IF SkipTest
       THEN /\ outcome' = [outcome EXCEPT ![condition] = "skipped"]
            /\ Advance
       ELSE /\ pc' = "filter_genes"
            /\ UNCHANGED <<outcome, ci>>
    /\ UNCHANGED <<inputs, error, touched, samples, adata_annotated, adata_raw,
                   output_dir, sample_meta, cond_dict, raw_h5ad, adata, mod, cond_fs,
                   inf_aver_csv, calls>>

Call(fn) == [fn |-> fn, condition |-> condition]

\* lines 140-141 (the gene axis is not part of the state)
FilterGenes ==
    /\ pc = "filter_genes"
    /\ calls' = Append(calls, Call("filter_genes"))
    /\ pc' = "train"
    /\ UNCHANGED <<inputs, error, touched, samples, adata_annotated, adata_raw,
                   output_dir, sample_meta, cond_dict, raw_h5ad, ci, adata, mod,
                   cond_fs, inf_aver_csv, outcome>>

\* the categories setup_anndata registers for labels_key: the labels that
\* occur in the dataset, sorted
FactorNames(rows) ==
    SelectSeq(Labels, LAMBDA l : \E i \in 1..Len(rows) : rows[i].obs.cell_types = l)

\* lines 144-161
SetupAndTrain ==
    /\ pc = "train"
    /\ mod' = [condition |-> condition, factor_names |-> FactorNames(adata.rows)]
    /\ calls' = calls \o <<Call("setup_anndata"), Call("train")>>
    /\ pc' = "save_plot"
    /\ UNCHANGED <<inputs, error, touched, samples, adata_annotated, adata_raw,
                   output_dir, sample_meta, cond_dict, raw_h5ad, ci, adata, cond_fs,
                   inf_aver_csv, outcome>>

\* an artifact written into tmp_out
WriteArtifact(file) ==
    cond_fs' = [cond_fs EXCEPT ![condition].files[file] = "new"]

\* lines 164-166
SavePlot ==
    /\ pc = "save_plot"
    /\ WriteArtifact("training_plot.png")
    /\ pc' = "export_posterior"
    /\ UNCHANGED <<inputs, error, touched, samples, adata_annotated, adata_raw,
                   output_dir, sample_meta, cond_dict, raw_h5ad, ci, adata, mod,
                   inf_aver_csv, calls, outcome>>

MeansColumn(factor) == <<MeansKey, factor>>

MeansColumns(factor_names) == {MeansColumn(factor_names[i]) : i \in 1..Len(factor_names)}

\* lines 169-171: the library adds uns['mod'] and the per-cluster means to the
\* dataset, the means in .varm or in .var depending on its version
ExportPosterior ==
    /\ pc = "export_posterior"
    /\ adata' = [adata EXCEPT
                    !.uns  = ("mod" :> [factor_names |-> mod.factor_names]) @@ @,
                    !.varm = IF stored_in = "varm"
                             THEN (MeansKey :> MeansColumns(mod.factor_names))
                             ELSE @,
                    !.var  = IF stored_in = "var"
                             THEN MeansColumns(mod.factor_names)
                             ELSE @]
    /\ calls' = Append(calls, Call("export_posterior"))
    /\ pc' = "save_model"
    /\ UNCHANGED <<inputs, error, touched, samples, adata_annotated, adata_raw,
                   output_dir, sample_meta, cond_dict, raw_h5ad, ci, mod, cond_fs,
                   inf_aver_csv, outcome>>

\* line 174
SaveModel ==
    /\ pc = "save_model"
    /\ WriteArtifact("c2l_mod")
    /\ pc' = "write_sc"
    /\ UNCHANGED <<inputs, error, touched, samples, adata_annotated, adata_raw,
                   output_dir, sample_meta, cond_dict, raw_h5ad, ci, adata, mod,
                   inf_aver_csv, calls, outcome>>

\* WriteSc with the write left out
WriteSc_NoWrite ==
    /\ pc = "write_sc"
    /\ pc' = "export_inf_aver"
    /\ UNCHANGED <<inputs, error, touched, samples, adata_annotated, adata_raw,
                   output_dir, sample_meta, cond_dict, raw_h5ad, ci, adata, mod,
                   cond_fs, inf_aver_csv, calls, outcome>>

\* line 175
WriteSc ==
    /\ pc = "write_sc"
    /\ WriteArtifact("sc.h5ad")
    /\ pc' = "export_inf_aver"
    /\ UNCHANGED <<inputs, error, touched, samples, adata_annotated, adata_raw,
                   output_dir, sample_meta, cond_dict, raw_h5ad, ci, adata, mod,
                   inf_aver_csv, calls, outcome>>

\* line 180 reads the factor names of the dataset just trained, line 183 those
\* of the combined raw dataset
VarmNamesSource == adata

VarNamesSource == adata_raw

\* the dataset whose uns['mod']['factor_names'] names the columns to select
NamesSource == IF MeansKey \in DOMAIN adata.varm THEN VarmNamesSource ELSE VarNamesSource

\* the table the columns are selected from: adata.varm[...] or adata.var
MeansTable == IF MeansKey \in DOMAIN adata.varm THEN adata.varm[MeansKey] ELSE adata.var

\* lines 178-184 raise KeyError: no 'mod' entry, or a requested column missing
LookupFails ==
    \/ "mod" \notin DOMAIN NamesSource.uns
    \/ ~(MeansColumns(NamesSource.uns["mod"].factor_names) \subseteq MeansTable)

\* lines 178-184: the selected columns, renamed to the trained dataset's factor names
inf_aver ==
    LET selected == NamesSource.uns["mod"].factor_names
    IN  [columns |-> adata.uns["mod"].factor_names,
         data    |-> [i \in 1..Len(selected) |-> MeansColumn(selected[i])]]

\* lines 177-186
ExportInfAver ==
    /\ pc = "export_inf_aver"
    /\ IF LookupFails
       THEN /\ pc' = "failed"
            /\ error' = "KeyError"
            /\ UNCHANGED <<cond_fs, inf_aver_csv, outcome, ci>>
       ELSE /\ WriteArtifact("inf_aver.csv")
            /\ inf_aver_csv' = [inf_aver_csv EXCEPT ![condition] = inf_aver]
            /\ outcome' = [outcome EXCEPT ![condition] = "written"]
            /\ error' = error
            /\ Advance
    /\ UNCHANGED <<inputs, touched, samples, adata_annotated, adata_raw, output_dir,
                   sample_meta, cond_dict, raw_h5ad, adata, mod, calls>>

-----------------------------------------------------------------------------
(* Failures of the environment: a missing or unreadable input, a write that *)
(* fails, a library call that raises (e.g. a diverging training).  Nothing  *)
(* catches them: the run ends (no try/except in the script).                *)

ExternalSteps ==
    {"load_raw", "mkdir_output", "read_meta", "write_raw", "mkdir_tmp_out",
     "filter_genes", "train", "save_plot", "export_posterior", "save_model",
     "write_sc", "export_inf_aver"}

\* the artifact a failing write step may leave partly written
PartialTarget ==
    [p \in {"save_plot", "save_model", "write_sc", "export_inf_aver"} |->
        CASE p = "save_plot"       -> "training_plot.png"
          [] p = "save_model"      -> "c2l_mod"
          [] p = "write_sc"        -> "sc.h5ad"
          [] p = "export_inf_aver" -> "inf_aver.csv"]

ExternalFailure ==
    /\ pc \in ExternalSteps
    /\ pc' = "failed"
    /\ error' = "Exception"
    /\ \/ cond_fs' = cond_fs
       \/ /\ pc \in DOMAIN PartialTarget
          /\ pc = "export_inf_aver" => ~LookupFails
          /\ cond_fs' = [cond_fs EXCEPT ![condition].files[PartialTarget[pc]] = "partial"]
    /\ UNCHANGED <<inputs, touched, samples, adata_annotated, adata_raw, output_dir,
                   sample_meta, cond_dict, raw_h5ad, ci, adata, mod, inf_aver_csv,
                   calls, outcome>>

-----------------------------------------------------------------------------
(* Inputs *)

MaxCells == 1

MaxAnn == 2

SeqsUpTo(S, n) == UNION {[1..k -> S] : k \in 0..n}

DupFreeSeqsUpTo(S, n) == UNION {Orderings(T) : T \in {U \in SUBSET S : Cardinality(U) <= n}}

MetaRow(s, c, l) == [sample_id |-> s, Condition |-> c, lesion_type |-> l]

AnnRow(name, s, label) == [name |-> name, obs |-> [sample_id |-> s, cell_types |-> label]]

NoOutput == [c \in CondSet |-> [dir |-> FALSE, files |-> [f \in Artifacts |-> "absent"]]]

\* the output directory as a complete earlier run leaves it
CompleteOutput == [c \in CondSet |-> [dir |-> TRUE, files |-> [f \in Artifacts |-> "old"]]]

\* the output directory as an earlier run that stopped in the second condition leaves it
InterruptedOutput ==
    [c \in CondSet |->
        IF c = "All" THEN CompleteOutput[c]
        ELSE IF c = "MS" THEN [dir |-> TRUE, files |-> [f \in Artifacts |->
                                  IF f = "training_plot.png" THEN "old" ELSE "absent"]]
        ELSE NoOutput[c]]

PrevOutputs == {NoOutput, CompleteOutput, InterruptedOutput}

Selectors == {"cellbender", "cellranger", "CellBender", "cell"}

(* Inputs with few cells and identifiers that contain the separators *)

nameA == <<"a">>

nameAB == <<"a", "_", "b">>

hiddenEntry == <<".", "h">>

SmallDirs == {{nameA}, {nameA, nameAB}}

SmallBarcodes == {<<"c", "-", "1">>, <<"b", "_", "c", "-", "1">>, <<"c">>}

SmallAnnRows ==
    {AnnRow(<<"c", "-", "1", "-", "1">>, nameA, "T"),
     AnnRow(<<"c", "-", "1", "-", "1">>, nameAB, "T"),
     AnnRow(<<"b", "_", "c", "-", "1", "-", "1", "2">>, nameA, "T"),
     AnnRow(<<"c", "-", "1">>, nameA, "T")}

SmallMeta(dirs) ==
    <<MetaRow(nameA, "MS", "CA")>> \o
    (IF nameAB \in dirs THEN <<MetaRow(nameAB, "Control", "none")>> ELSE <<>>)

InitSmall ==
    /\ args_output = "cellranger"
    /\ recompute = TRUE
    /\ stored_in = "varm"
    /\ prev_output = NoOutput
    /\ \E dirs \in SmallDirs :
          /\ raw_input_dir \in [dirs -> DupFreeSeqsUpTo(SmallBarcodes, MaxCells)]
          /\ meta_file = SmallMeta(dirs)
    /\ annotated_file \in SeqsUpTo(SmallAnnRows, MaxAnn)

(* Inputs generated from the number of cells of each label in each sample *)

s1 == <<"s", "1">>

s2 == <<"s", "2">>

s3 == <<"s", "3">>

GenSamples == <<s1, s2>>

Letters == <<"a", "c", "g", "t">>

\* the k-th barcode, as the matrix file spells it
Barcode(k) ==
    <<Letters[((k \div 16) % 4) + 1], Letters[((k \div 4) % 4) + 1], Letters[(k % 4) + 1], "-", "1">>

CountChoices == {1, min_cells_per_type - 1, min_cells_per_type}

TotalCells(counts, s) == counts[s]["B"] + counts[s]["T"]

\* the annotated cells of sample s: first the "B" cells, then the "T" cells, each
\* name the barcode followed by the batch suffix of the sample
GenAnnotatedOf(counts, s, batch) ==
    [k \in 1..TotalCells(counts, s) |->
        AnnRow(Barcode(k) \o <<"-", batch>>, s, IF k <= counts[s]["B"] THEN "B" ELSE "T")]

GenAnnotated(counts) ==
    GenAnnotatedOf(counts, s1, "1") \o GenAnnotatedOf(counts, s2, "2")

\* the matrix file of sample s: the annotated barcodes and one more, last first
GenRawOf(counts, s) ==
    [k \in 1..(TotalCells(counts, s) + 1) |-> Barcode(TotalCells(counts, s) + 2 - k)]

GenRaw(counts) == [s \in {s1, s2} |-> GenRawOf(counts, s)]

GoodMeta == <<MetaRow(s1, "MS", "CA"), MetaRow(s2, "Control", "none")>>

AltMeta == <<MetaRow(s2, "MS", "A"), MetaRow(s1, "MS", "CI")>>

InitCounts ==
    /\ args_output = "cellbender"
    /\ recompute = TRUE
    /\ stored_in = "varm"
    /\ prev_output = NoOutput
    /\ meta_file = GoodMeta
    /\ \E counts \in [{s1, s2} -> [Range(Labels) -> CountChoices]] :
          /\ annotated_file = GenAnnotated(counts)
          /\ raw_input_dir = GenRaw(counts)

(* One dataset under every configuration, output directory and metadata table *)

RunCounts ==
    [s \in {s1, s2} |-> IF s = s1 THEN [B |-> min_cells_per_type, T |-> 1]
                        ELSE [B |-> 1, T |-> min_cells_per_type]]

MetaTables ==
    {GoodMeta, AltMeta, <<MetaRow(s1, "MS", "CA")>>,
     GoodMeta \o <<MetaRow(s3, "MS", "A")>>}

RunRawDirs ==
    {GenRaw(RunCounts),
     GenRaw(RunCounts) @@ (hiddenEntry :> <<>>),
     [s \in {s1} |-> GenRawOf(RunCounts, s)]}

RunAnnotated ==
    {GenAnnotated(RunCounts), GenAnnotatedOf(RunCounts, s1, "1")}

InitRun ==
    /\ args_output \in Selectors
    /\ recompute \in BOOLEAN
    /\ stored_in \in {"varm", "var"}
    /\ prev_output \in PrevOutputs
    /\ meta_file \in MetaTables
    /\ raw_input_dir \in RunRawDirs
    /\ annotated_file \in RunAnnotated

-----------------------------------------------------------------------------
(* The state at the start of the run, line 38 *)

Init ==
    /\ InitSmall \/ InitCounts \/ InitRun
    /\ pc = "resolve"
    /\ error = "none"
    /\ touched = {}
    /\ samples = <<>>
    /\ adata_annotated = <<>>
    /\ adata_raw = [rows |-> <<>>, uns |-> EmptyMap]
    /\ output_dir = (\E c \in CondSet : prev_output[c].dir)
    /\ sample_meta = <<>>
    /\ cond_dict = <<>>
    /\ raw_h5ad = {}
    /\ ci = 0
    /\ adata = [rows |-> <<>>, uns |-> EmptyMap, varm |-> EmptyMap, var |-> {}]
    /\ mod = [condition |-> "none", factor_names |-> <<>>]
    /\ cond_fs = prev_output
    /\ inf_aver_csv = [c \in CondSet |-> [columns |-> <<>>, data |-> <<>>]]
    /\ calls = <<>>
    /\ outcome = [c \in CondSet |-> "none"]

Next ==
    \/ RaiseValueError
    \/ ReadAnnotated
    \/ LoadRaw
    \/ MkdirOutput
    \/ RewriteObsNames
    \/ AssertSubset
    \/ ReadMeta
    \/ AssertSamples
    \/ Transfer
    \/ WriteRaw
    \/ SubsetAndFilter
    \/ MkdirTmpOut
    \/ SkipCheck
    \/ FilterGenes
    \/ SetupAndTrain
    \/ SavePlot
    \/ ExportPosterior
    \/ SaveModel
    \/ WriteSc
    \/ ExportInfAver
    \/ ExternalFailure

Spec == Init /\ [][Next]_vars

-----------------------------------------------------------------------------
(* Properties.  The expected values below are computed from the inputs     *)
(* (annotated_file, raw_input_dir, meta_file, prev_output), not from the    *)
(* variables the run computes.                                             *)

PreLoopPcs ==
    {"resolve", "load_raw", "mkdir_output", "rewrite", "assert_subset", "read_meta",
     "assert_samples", "transfer", "write_raw"}

OutputDirAtStart == \E c \in CondSet : prev_output[c].dir

VisibleDirs == {s \in DOMAIN raw_input_dir : ~IsHidden(s)}

\* the cells of the raw input, each <<sample directory, row of its file>>
RawCells == UNION {{<<s, k>> : k \in 1..Len(raw_input_dir[s])} : s \in VisibleDirs}

\* the identifier <sample>_<barcode> of a raw cell
RawId(cell) == cell[1] \o <<"_">> \o raw_input_dir[cell[1]][cell[2]]

\* t is name with one trailing -<digits> suffix removed, or name itself when
\* name has no such suffix
IsStripped(t, name) ==
    LET n == Len(name)
        Cuts == {k \in 1..(n - 1) : /\ name[n - k] = "-"
                                    /\ \A i \in (n - k + 1)..n : name[i] \in Digits}
    IN  IF Cuts = {} THEN t = name
        ELSE \E k \in Cuts : t = [i \in 1..(n - k - 1) |-> name[i]]

\* name with one trailing -<digits> suffix removed
Stripped(name) ==
    CHOOSE t \in {[i \in 1..m |-> name[i]] : m \in 0..Len(name)} : IsStripped(t, name)

\* the identifier <sample>_<stripped cell id> of an annotated row
RewrittenId(row) == row.obs.sample_id \o <<"_">> \o Stripped(row.name)

\* every annotated cell has a raw cell with its rewritten identifier
AnnotatedIsSubset ==
    LET ids == {RawId(c) : c \in RawCells}
    IN  \A i \in 1..Len(annotated_file) : RewrittenId(annotated_file[i]) \in ids

RawSampleSet == {s \in VisibleDirs : Len(raw_input_dir[s]) > 0}

AnnotatedSampleSet == {annotated_file[i].obs.sample_id : i \in 1..Len(annotated_file)}

MetaSampleSet == {meta_file[i].sample_id : i \in 1..Len(meta_file)}

SamplesMatch == MetaSampleSet = RawSampleSet /\ MetaSampleSet = AnnotatedSampleSet

Writes == {a \in touched : a.op \in {"write", "mkdir"}}

-----------------------------------------------------------------------------
\* C1: for every --output value other than "cellbender" and "cellranger" the
\* run ends with ValueError, and nothing has been read, listed, created or
\* written: the annotated dataset is not read, the raw directory is not
\* listed, the output directory is not created.
C1_InvalidSelectorTouchesNothing ==
    args_output \notin Profiles =>
        /\ pc \in {"resolve", "failed"}
        /\ pc = "failed" => error = "ValueError"
        /\ touched = {}
        /\ adata_annotated = <<>>
        /\ samples = <<>>
        /\ adata_raw.rows = <<>>
        /\ output_dir = OutputDirAtStart
        /\ cond_fs = prev_output
        /\ raw_h5ad = {}

C1_Witness ==
    /\ args_output \notin Profiles
    /\ pc = "failed"
    /\ error = "ValueError"
    /\ Len(annotated_file) > 0

SubsetAssertionFailed == pc = "failed" /\ error = "AssertionError: not a subset"

\* C2 as stated: when the subset assertion fails nothing has been written by
\* the run, neither the combined raw dataset, nor a per-condition directory
\* or artifact, nor the output directory.
C2_NothingWrittenAtSubsetFailure ==
    SubsetAssertionFailed =>
        /\ raw_h5ad = {}
        /\ cond_fs = prev_output
        /\ output_dir = OutputDirAtStart
        /\ Writes = {}

\* C2 amended: an annotated identifier set that is not a subset of the raw
\* one stops the run at the assertion of line 87 at the latest; when that
\* assertion fails the run has created the output directory (line 75) and
\* written nothing else: no combined raw dataset, no per-condition
\* directory or artifact.
C2_OnlyOutputDirAtSubsetFailure ==
    /\ pc \notin {"resolve", "load_raw", "mkdir_output", "rewrite", "assert_subset", "failed"}
          => AnnotatedIsSubset
    /\ SubsetAssertionFailed =>
          /\ ~AnnotatedIsSubset
          /\ raw_h5ad = {}
          /\ cond_fs = prev_output
          /\ output_dir
          /\ Writes = {Access("mkdir", OutputDir(args_output), <<>>)}

C2_Witness ==
    /\ SubsetAssertionFailed
    /\ ~OutputDirAtStart
    /\ output_dir

\* nothing of lines 104-186 has happened: no annotation transfer, no combined
\* raw dataset written, no condition subset, no per-condition directory
\* created, no library call of the loop made
BeforeTransfer ==
    /\ pc \in (PreLoopPcs \ {"transfer", "write_raw"}) \cup {"failed"}
    /\ ci = 0
    /\ calls = <<>>
    /\ cond_fs = prev_output
    /\ raw_h5ad = {}
    /\ \A c \in CondSet : outcome[c] = "none"
    /\ adata.rows = <<>>

\* C3: when the metadata sample ids differ from the raw or from the annotated
\* sample ids, the run never gets past the assertions of lines 101-102: no
\* condition is subset, no per-condition directory is created, no library
\* call of the loop is made and the combined raw dataset is not written
\* (stated as its contrapositive: a run that got further has matching sets).
C3_SampleMismatchHaltsBeforeTraining == ~BeforeTransfer => SamplesMatch

C3_Witness ==
    /\ pc = "failed"
    /\ error = "AssertionError: missing from the annotated adata"
    /\ MetaSampleSet = RawSampleSet
    /\ AnnotatedSampleSet /= MetaSampleSet

\* the sample ids of a condition, from the metadata table
ExpectedSamples(name) ==
    {meta_file[i].sample_id :
        i \in {k \in 1..Len(meta_file) :
                  \/ name = "All"
                  \/ name \in {"MS", "Control"} /\ meta_file[k].Condition = name
                  \/ name \in {"CA", "CI", "A"} /\ meta_file[k].lesion_type = name}}

\* the annotated cells of a condition's samples that carry the label
CellsOf(name, label) ==
    {i \in 1..Len(annotated_file) :
        /\ annotated_file[i].obs.sample_id \in ExpectedSamples(name)
        /\ annotated_file[i].obs.cell_types = label}

LoopBodyPcs ==
    {"mkdir_tmp_out", "skip_check", "filter_genes", "train", "save_plot",
     "export_posterior", "save_model", "write_sc", "export_inf_aver"}

\* C4: a label with fewer than 20 cells in the condition's sample subset has
\* no cell in the dataset given to the model for that condition and is no
\* column of the inf_aver.csv the run writes for it; a label with 20 or more
\* cells in the subset keeps all of them.  The count is that of the
\* condition's subset.
C4_RareLabelsDropped ==
    /\ pc \in LoopBodyPcs =>
          \A l \in Range(Labels) :
              LET n    == Cardinality(CellsOf(condition, l))
                  kept == {i \in 1..Len(adata.rows) : adata.rows[i].obs.cell_types = l}
              IN  /\ n < min_cells_per_type => kept = {}
                  /\ n >= min_cells_per_type => Cardinality(kept) = n
                  /\ (n < min_cells_per_type /\ mod.condition = condition)
                        => l \notin Range(mod.factor_names)
    /\ \A c \in CondSet :
          outcome[c] = "written" =>
              \A l \in Range(Labels) :
                  Cardinality(CellsOf(c, l)) < min_cells_per_type
                      => l \notin Range(inf_aver_csv[c].columns)

C4_Witness ==
    /\ outcome["All"] = "written"
    /\ outcome["MS"] = "written"
    /\ \E l \in Range(Labels) :
          /\ Cardinality(CellsOf("MS", l)) = min_cells_per_type - 1
          /\ Cardinality(CellsOf("All", l)) = min_cells_per_type
          /\ l \in Range(inf_aver_csv["All"].columns)
          /\ l \notin Range(inf_aver_csv["MS"].columns)
    /\ \E l \in Range(Labels) :
          /\ Cardinality(CellsOf("MS", l)) = min_cells_per_type
          /\ l \in Range(inf_aver_csv["MS"].columns)

CallsFor(c) == {k \in 1..Len(calls) : calls[k].condition = c}

C5_Skipped ==
    \A c \in CondSet :
        /\ outcome[c] = "skipped" =>
              /\ ~recompute
              /\ prev_output[c].files["inf_aver.csv"] /= "absent"
              /\ cond_fs[c].files = prev_output[c].files
              /\ CallsFor(c) = {}
        /\ outcome[c] = "written" =>
              /\ recompute \/ prev_output[c].files["inf_aver.csv"] = "absent"
              /\ \E k \in CallsFor(c) : calls[k].fn = "train"

C5_SkipStep ==
    pc = "skip_check" =>
        LET c      == cond_dict[ci].name
            marker == cond_fs[c].files["inf_aver.csv"] /= "absent"
        IN  /\ (outcome'[c] = "skipped") <=> (~recompute /\ marker)
            /\ outcome'[c] = "skipped" =>
                  /\ cond_fs' = cond_fs
                  /\ calls' = calls
                  /\ inf_aver_csv' = inf_aver_csv
                  /\ IF ci = Len(CondNames) THEN pc' = "done"
                     ELSE pc' = "subset" /\ ci' = ci + 1
            /\ outcome'[c] /= "skipped" => pc' = "filter_genes" /\ ci' = ci

\* C5: a condition is skipped exactly when recompute is false and its
\* inf_aver.csv exists; a skipped condition gets no gene filtering, setup,
\* training or export, no file of its directory is created or overwritten,
\* and the loop goes on with the next condition; with recompute true no
\* condition is skipped.
C5_SkipIffMarkerAndNoRecompute == [](C5_Skipped) /\ [][C5_SkipStep]_vars

C5_Witness ==
    /\ outcome["All"] = "skipped"
    /\ outcome["MS"] = "written"
    /\ cond_fs["All"] = prev_output["All"]

\* C6 as stated: sample directory names being distinct and each sample's
\* barcodes duplicate-free, the identifiers of the merged raw matrix are
\* pairwise distinct.
C6_MergedIdsDistinct ==
    (/\ pc \in {"mkdir_output", "rewrite", "assert_subset", "read_meta", "assert_samples",
                "transfer"}
     /\ \A s \in VisibleDirs : IsUnique(raw_input_dir[s]))
        => IsUnique(Names(adata_raw.rows))

\* C7: after the annotation transfer the combined matrix has one row per
\* annotated cell, in the annotated order; row i has the counts of the one
\* raw cell whose identifier is the i-th rewritten annotated identifier and
\* the i-th annotated cell's metadata.
C7_TransferFollowsAnnotatedOrder ==
    pc = "write_raw" =>
        /\ Len(adata_raw.rows) = Len(annotated_file)
        /\ \A i \in 1..Len(annotated_file) :
              LET id  == RewrittenId(annotated_file[i])
                  row == adata_raw.rows[i]
              IN  /\ row.name = id
                  /\ row.obs = annotated_file[i].obs
                  /\ row.X \in RawCells
                  /\ \A c \in RawCells : (RawId(c) = id) <=> (c = row.X)

C7_Witness ==
    /\ pc = "write_raw"
    /\ Len(adata_raw.rows) >= 2
    /\ Cardinality(RawCells) > Len(adata_raw.rows)
    /\ adata_raw.rows[1].X[1] = adata_raw.rows[2].X[1]
    /\ adata_raw.rows[1].X[2] > adata_raw.rows[2].X[2]
    /\ Stripped(annotated_file[1].name) /= annotated_file[1].name

C8_Order ==
    /\ cond_dict /= <<>> => [i \in 1..Len(cond_dict) |-> cond_dict[i].name] = CondNames
    /\ \A j \in 1..Len(CondNames) :
          LET c == CondNames[j]
          IN  /\ j < ci => outcome[c] \in {"written", "skipped"}
              /\ outcome[c] = "written" => cond_fs[c].files["inf_aver.csv"] = "new"
              /\ j > ci => /\ outcome[c] = "none"
                           /\ cond_fs[c] = prev_output[c]
                           /\ CallsFor(c) = {}
    /\ \A k \in 1..Len(calls) : calls[k].condition \in {CondNames[j] : j \in 1..ci}
    /\ \A k \in 1..(Len(calls) - 1) :
          \E i, j \in 1..Len(CondNames) :
              i <= j /\ calls[k].condition = CondNames[i] /\ calls[k + 1].condition = CondNames[j]
    /\ pc = "done" => ci = Len(CondNames) /\ outcome[CondNames[ci]] \in {"written", "skipped"}

C8_Step ==
    /\ pc \notin {"failed", "done"}
    /\ ci' \in {ci, ci + 1}
    /\ pc' = "failed" => ci' = ci /\ outcome' = outcome
    /\ \A j \in 1..Len(CondNames) :
          j < ci => /\ cond_fs'[CondNames[j]] = cond_fs[CondNames[j]]
                    /\ outcome'[CondNames[j]] = outcome[CondNames[j]]
                    /\ inf_aver_csv'[CondNames[j]] = inf_aver_csv[CondNames[j]]

\* C8: the conditions are processed one at a time in the order All, MS,
\* Control, CA, CI, A; a condition's steps happen only when every earlier
\* condition has written its inf_aver.csv or been skipped; after a failure
\* nothing more happens, nothing is retried, and what earlier conditions
\* wrote stays as it is.
C8_ConditionsInOrderHaltOnFailure == [](C8_Order) /\ [][C8_Step]_vars

C8_Witness ==
    /\ pc = "failed"
    /\ ci = 3
    /\ outcome["All"] = "skipped"
    /\ outcome["MS"] = "written"
    /\ outcome["Control"] = "started"
    /\ cond_fs["Control"].files["training_plot.png"] = "new"

\* C9 as stated: wherever the library stored the per-cell-type means, the
\* lookup of lines 178-183 succeeds.
C9_ExportSucceedsOnBothPaths == ~(pc = "failed" /\ error = "KeyError")

\* C10: in a run that starts without output, a condition directory that
\* holds inf_aver.csv also holds the plot, the saved model and sc.h5ad of
\* that condition, in every state, the state a failure leaves included.
C10_MarkerWrittenLast ==
    prev_output = NoOutput =>
        \A c \in CondSet :
            cond_fs[c].files["inf_aver.csv"] /= "absent" =>
                \A f \in Artifacts \ {"inf_aver.csv"} : cond_fs[c].files[f] = "new"

C10_Witness ==
    /\ prev_output = NoOutput
    /\ pc = "failed"
    /\ cond_fs["All"].files["inf_aver.csv"] = "new"
    /\ cond_fs["MS"].files["inf_aver.csv"] = "partial"
    /\ cond_fs["Control"].files["inf_aver.csv"] = "absent"

\* The case C10 leaves out, stated as if it could not occur: with recompute
\* true over an earlier run's output, no old inf_aver.csv stands next to a
\* plot already rewritten.  (It does occur: this predicate is violated.)
C10_StaleMarkerUnreachable ==
    ~(/\ recompute
      /\ prev_output = CompleteOutput
      /\ \E c \in CondSet : /\ cond_fs[c].files["inf_aver.csv"] = "old"
                            /\ cond_fs[c].files["training_plot.png"] = "new")

====
